---- MODULE Spec2Model ----
(***************************************************************************)
(* Real-Time Order Processor: the worker pool (internal/processor/pool.go), *)
(* the HTTP handlers that feed and observe it (internal/handler),           *)
(* the order model (internal/pkg/models) and the result reader of           *)
(* cmd/main.go, as one state machine.                                       *)
(*                                                                         *)
(* Goroutines are interleaved at their channel operations and atomic       *)
(* counter updates.  A Go select with several ready cases picks any of     *)
(* them, so each ready case is a separate enabled action.                  *)
(***************************************************************************)
EXTENDS Integers, Sequences, FiniteSets, TLC

\* Start(ctx, workers, buf): the pool's size parameters; the number of valid
\* orders the environment submits; the most a processOrder call takes beyond
\* its sleep, in ms.
Workers == 2
Buf == 2
MaxOrders == 3
MaxOverhead == 0

\* Observation: the number of Pool.Stats calls made, the whole seconds of
\* uptime the clock reaches, and the number of orders submitted meanwhile.
MaxStatsCalls == 2
MaxUptime == 1
MaxStatsOrders == 1

\* The number of orders submitted when only their priorities vary.
MaxPriorityOrders == 2
MaxHealthOrders == 2
MaxHealthCalls == 1

WorkerIDs == 0 .. (Workers - 1)

\* Limits and thresholds of pool.go.
AmountLimit == 10000
ItemLimit == 50
HighValue == 1000
SleepUnit == 10

StatusMethodNotAllowed == 405
StatusBadRequest == 400
StatusCreated == 201
StatusServiceUnavailable == 503

VARIABLES
    Orders,         \* pool.Orders: buffered channel of Order, capacity Buf
    Results,        \* pool.Results: buffered channel of ProcessedOrder
    ordersClosed,   \* close(pool.Orders) has run
    resultsClosed,  \* close(pool.Results) has run
    cancelled,      \* pool.Ctx is done (pool.Cancel has run)
    Wg,             \* pool.Wg counter
    Processed, SuccessCount, ErrorCount, TotalTime,   \* the atomic counters
    wpc,            \* each worker goroutine's position
    order,          \* each worker's local `order`
    processedOrder, \* each worker's local `processedOrder`
    closePc,        \* position of the goroutine running Close(pool)
    resp,           \* the http.ResponseWriter of the last POST /orders
    outcome,        \* which path the last CreateOrderHandler call took
    nextId,         \* number of order ids handed out so far
    received,       \* the results the reader of main.go has taken, in order
    readerDone,     \* the reader's `for range pool.Results` loop has ended
    faults,         \* run-time panics raised so far
    probe,          \* the last answer of Pool.IsHealthy
    stats,          \* the goroutine calling Pool.Stats: position, locals, answer
    request,        \* the request a single-request run hands to the handler
    health,         \* the goroutine serving GET /health: position, locals, answer
    mainPc,         \* position of func main
    admitted,       \* history: ids of the orders placed on pool.Orders
    rejected,       \* history: ids of the orders refused by the default branch
    dequeuedBy,     \* history: <<id, worker>> for every receive from pool.Orders
    created,        \* history: the ProcessedOrder values built by processOrder
    pushed,         \* history: the ProcessedOrder values sent on pool.Results
    dropped,        \* history: ids whose result lost the race against ctx.Done
    atCancel        \* history: what pool.Cancel() found when Close called it

poolVars == <<Orders, Results, ordersClosed, resultsClosed, cancelled, Wg,
              Processed, SuccessCount, ErrorCount, TotalTime>>
counters == <<Processed, SuccessCount, ErrorCount, TotalTime>>
workerVars == <<wpc, order, processedOrder>>
histVars == <<admitted, rejected, dequeuedBy, created, pushed, dropped, atCancel>>
vars == <<Orders, Results, ordersClosed, resultsClosed, cancelled, Wg,
          Processed, SuccessCount, ErrorCount, TotalTime, wpc, order,
          processedOrder, closePc, resp, outcome, nextId, received, readerDone,
          faults, probe, stats, request, health, mainPc, admitted, rejected,
          dequeuedBy, created, pushed, dropped, atCancel>>

----------------------------------------------------------------------------
(* models.Order, models.ProcessedOrder and the order validation.  Items is  *)
(* kept as its length, strings as themselves, "" being the empty string.    *)

validStatuses == {"pending", "paid", "shipped", "delivered", "cancelled"}
validPriorities == {1, 2, 3}

\* The zero value of models.Order.
ZeroOrder ==
    [ID |-> 0, Amount |-> 0, NItems |-> 0, Customer |-> "", Status |-> "",
     Address |-> "", Priority |-> 0]

\* The zero value of models.ProcessedOrder.
ZeroProcessed ==
    [Order |-> ZeroOrder, WorkerID |-> 0, ProcessingTime |-> 0,
     Success |-> FALSE, Error |-> "", Result |-> ""]

\* The zero value of models.ProcessingStats.  AverageProcessTime, a float64
\* quotient, is kept as the fraction <<numerator, denominator>> in lowest
\* terms.
ZeroStats ==
    [TotalProcessed |-> 0, SuccessCount |-> 0, ErrorCount |-> 0,
     AverageProcessTime |-> <<0, 1>>, ActiveWorkers |-> 0, QueueLength |-> 0,
     Uptime |-> 0]

\* A faulty Validate: the address is not looked at.
ValidateNoAddress(o) ==
    IF o.ID = 0 THEN "id is required"
    ELSE IF o.Customer = "" THEN "customer is required"
    ELSE IF o.Status = "" THEN "status is required"
    ELSE IF o.Status \notin validStatuses THEN "invalid status"
    ELSE IF o.Amount <= 0 THEN "amount must be > 0"
    ELSE IF o.NItems = 0 THEN "items must not be empty"
    ELSE IF o.Priority # 0 /\ o.Priority \notin validPriorities
         THEN "invalid priority (must be 1, 2, or 3)"
    ELSE ""

\* Order.Validate: "" when the order is acceptable, else the error text.
Validate(o) ==
    IF o.ID = 0 THEN "id is required"
    ELSE IF o.Customer = "" THEN "customer is required"
    ELSE IF o.Status = "" THEN "status is required"
    ELSE IF o.Status \notin validStatuses THEN "invalid status"
    ELSE IF o.Address = "" THEN "address is required"
    ELSE IF o.Amount <= 0 THEN "amount must be > 0"
    ELSE IF o.NItems = 0 THEN "items must not be empty"
    ELSE IF o.Priority # 0 /\ o.Priority \notin validPriorities
         THEN "invalid priority (must be 1, 2, or 3)"
    ELSE ""

\* Order.SetDefaultValues.
SetDefaultValues(o) ==
    LET p == IF o.Priority = 0 THEN [o EXCEPT !.Priority = 2] ELSE o
    IN  IF p.Status = "" THEN [p EXCEPT !.Status = "pending"] ELSE p

\* A faulty limit check: an amount at the limit is refused as well.
validateOrderForProcessingAtLimit(o) ==
    IF o.Amount >= AmountLimit THEN "order amount exceeds limit"
    ELSE IF o.NItems > ItemLimit THEN "too many items in order"
    ELSE ""

\* A faulty limit check: the item count is looked at before the amount.
validateOrderForProcessingItemsFirst(o) ==
    IF o.NItems > ItemLimit THEN "too many items in order"
    ELSE IF o.Amount > AmountLimit THEN "order amount exceeds limit"
    ELSE ""

\* Pool.validateOrderForProcessing: "" for nil, else the error message.
validateOrderForProcessing(o) ==
    IF o.Amount > AmountLimit THEN "order amount exceeds limit"
    ELSE IF o.NItems > ItemLimit THEN "too many items in order"
    ELSE ""

\* Faulty business rules: the priority is looked at before the amount.
applyBusinessRulesPriorityFirst(po) ==
    IF po.Order.Priority = 1
    THEN [po EXCEPT !.Order.Status = "expedited",
                    !.Result = "Order expedited due to high priority"]
    ELSE IF po.Order.Amount > HighValue
    THEN [po EXCEPT !.Order.Status = "priority_processing",
                    !.Result = "Order marked for priority processing"]
    ELSE [po EXCEPT !.Order.Status = "processing",
                    !.Result = "Order processing completed"]

\* Pool.applyBusinessRules.
applyBusinessRules(po) ==
    IF po.Order.Amount > HighValue
    THEN [po EXCEPT !.Order.Status = "priority_processing",
                    !.Result = "Order marked for priority processing"]
    ELSE IF po.Order.Priority = 1
    THEN [po EXCEPT !.Order.Status = "expedited",
                    !.Result = "Order expedited due to high priority"]
    ELSE [po EXCEPT !.Order.Status = "processing",
                    !.Result = "Order processing completed"]

\* A faulty processOrder: the result is stamped with worker 0 whichever
\* worker ran it.
processOrderWorkerZero(o, workerID, elapsed) ==
    LET init == [Order |-> o, WorkerID |-> 0, ProcessingTime |-> 0,
                 Success |-> TRUE, Error |-> "",
                 Result |-> "Order processed successfully"]
        err == validateOrderForProcessing(o)
        checked == IF err # ""
                   THEN [init EXCEPT !.Success = FALSE, !.Error = err,
                                     !.Result = "Order processing failed"]
                   ELSE init
        ruled == IF checked.Success THEN applyBusinessRules(checked) ELSE checked
    IN  [ruled EXCEPT !.ProcessingTime = elapsed]

\* A faulty processOrder: the business rules are applied whatever the limit
\* check said.
processOrderAlwaysRules(o, workerID, elapsed) ==
    LET init == [Order |-> o, WorkerID |-> workerID, ProcessingTime |-> 0,
                 Success |-> TRUE, Error |-> "",
                 Result |-> "Order processed successfully"]
        err == validateOrderForProcessing(o)
        checked == IF err # ""
                   THEN [init EXCEPT !.Success = FALSE, !.Error = err,
                                     !.Result = "Order processing failed"]
                   ELSE init
        ruled == applyBusinessRules(checked)
    IN  [ruled EXCEPT !.ProcessingTime = elapsed]

\* Pool.processOrder; elapsed is the measured time.Since(startTime) in ms.
processOrder(o, workerID, elapsed) ==
    LET init == [Order |-> o, WorkerID |-> workerID, ProcessingTime |-> 0,
                 Success |-> TRUE, Error |-> "",
                 Result |-> "Order processed successfully"]
        err == validateOrderForProcessing(o)
        checked == IF err # ""
                   THEN [init EXCEPT !.Success = FALSE, !.Error = err,
                                     !.Result = "Order processing failed"]
                   ELSE init
        ruled == IF checked.Success THEN applyBusinessRules(checked) ELSE checked
    IN  [ruled EXCEPT !.ProcessingTime = elapsed]

\* The elapsed times processOrder can measure: the sleep of Priority * 10 ms,
\* plus whatever the rest of the call took.
ElapsedTimes(o) == {o.Priority * SleepUnit + j : j \in 0 .. MaxOverhead}

----------------------------------------------------------------------------
(* net/http's ResponseWriter: the first WriteHeader fixes the status, later *)
(* calls are ignored; a Write before any WriteHeader sends 200.             *)

NewResponse == [status |-> 0, body |-> <<>>]

WriteHeader(w, code) ==
    IF w.status # 0 THEN w ELSE [w EXCEPT !.status = code]

Write(w, text) ==
    LET h == WriteHeader(w, 200)
    IN  [h EXCEPT !.body = Append(h.body, text)]

\* http.Error(w, text, code).
HttpError(w, text, code) == Write(WriteHeader(w, code), text)

----------------------------------------------------------------------------
(* Channels.  A buffered channel is its buffer plus a closed flag.          *)

\* A faulty channel: it takes one value more than its capacity.
CanSendOneMore(buffer) == Len(buffer) <= Buf

\* A send on an open channel is ready when the buffer has room.
CanSend(buffer) == Len(buffer) < Buf

\* A receive is ready when a value is buffered.
CanRecv(buffer) == Len(buffer) > 0

----------------------------------------------------------------------------
(* Start: both channels empty, every worker at the top of its loop.         *)

\* No request is singled out.
NoRequest == [Method |-> "", Decodes |-> FALSE, Order |-> ZeroOrder]

\* The Stats caller before its first call: idle, nothing loaded, nothing
\* returned.  began and before are the counters as they were when the latest
\* call and the one before it started.
StatsIdle ==
    [pc |-> "idle", processed |-> 0, success |-> 0, error |-> 0,
     totalTime |-> 0, snap |-> ZeroStats, calls |-> 0,
     began |-> <<0, 0, 0, 0>>, before |-> <<0, 0, 0, 0>>]

\* The goroutine serving GET /health before its first request: idle, nothing
\* read, nothing answered.
HealthIdle ==
    [pc |-> "idle", healthy |-> FALSE, queue_length |-> 0,
     resp |-> NewResponse,
     body |-> [status |-> "", healthy |-> FALSE, queue_length |-> 0,
               workers |-> 0],
     calls |-> 0]

Started ==
    /\ Orders = <<>>
    /\ Results = <<>>
    /\ ordersClosed = FALSE
    /\ resultsClosed = FALSE
    /\ cancelled = FALSE
    /\ Wg = Workers
    /\ Processed = 0
    /\ SuccessCount = 0
    /\ ErrorCount = 0
    /\ TotalTime = 0
    /\ wpc = [w \in WorkerIDs |-> "select"]
    /\ order = [w \in WorkerIDs |-> ZeroOrder]
    /\ processedOrder = [w \in WorkerIDs |-> ZeroProcessed]
    /\ closePc = "idle"
    /\ resp = NewResponse
    /\ outcome = "none"
    /\ nextId = 0
    /\ received = <<>>
    /\ readerDone = FALSE
    /\ faults = {}
    /\ probe = [op |-> "none", ret |-> FALSE]
    /\ admitted = {}
    /\ rejected = {}
    /\ dequeuedBy = {}
    /\ created = {}
    /\ pushed = <<>>
    /\ dropped = {}
    /\ atCancel = [called |-> FALSE, midTask |-> FALSE, queued |-> 0,
                   admitted |-> {}]
    /\ stats = StatsIdle
    /\ health = HealthIdle
    /\ mainPc = "serving"

Init == Started /\ request = NoRequest

----------------------------------------------------------------------------
(* POST /orders.  The request bodies the environment sends: the JSON either *)
(* fails to decode or decodes to an order.                                  *)

ValidBody ==
    [ID |-> 0, Amount |-> 500, NItems |-> 1, Customer |-> "c",
     Status |-> "", Address |-> "a", Priority |-> 0]

OrderBodies ==
    { ValidBody,
      [ValidBody EXCEPT !.Amount = 10001, !.Priority = 1, !.Status = "paid"],
      [ValidBody EXCEPT !.Amount = 0] }

Requests ==
    { [Method |-> "GET", Decodes |-> TRUE, Order |-> ValidBody],
      [Method |-> "POST", Decodes |-> FALSE, Order |-> ZeroOrder] }
    \cup { [Method |-> "POST", Decodes |-> TRUE, Order |-> b] : b \in OrderBodies }

\* generateID: a fresh identifier.
generateID == nextId + 1

\* The order CreateOrderHandler has after SetDefaultValues and generateID.
Prepared(r) ==
    LET o == SetDefaultValues(r.Order)
    IN  IF o.ID = 0 THEN [o EXCEPT !.ID = generateID] ELSE o

\* The response written before the order is offered to the pool:
\* w.WriteHeader(http.StatusCreated); json.NewEncoder(w).Encode(o).
Accepted == Write(WriteHeader(NewResponse, StatusCreated), "order")

\* A faulty select: on a full queue the oldest order is evicted to make room,
\* and the request is still answered as refused.
OfferEvict(buffer, closed, o, w) ==
    IF closed
    THEN [Orders |-> buffer, resp |-> w, outcome |-> "panic"]
    ELSE IF CanSend(buffer)
    THEN [Orders |-> Append(buffer, o), resp |-> w, outcome |-> "queued"]
    ELSE [Orders |-> Append(Tail(buffer), o),
          resp |-> HttpError(w, "service temporarily unavailable",
                             StatusServiceUnavailable),
          outcome |-> "queue_full"]

\* select { case pool.Orders <- o: default: http.Error(w, ..., 503) } on the
\* channel (buffer, closed) with response w so far: the channel's buffer, the
\* response and the path taken afterwards.  A send on a closed channel panics,
\* also as a case of a select that has a default.
Offer(buffer, closed, o, w) ==
    IF closed
    THEN [Orders |-> buffer, resp |-> w, outcome |-> "panic"]
    ELSE IF CanSend(buffer)
    THEN [Orders |-> Append(buffer, o), resp |-> w, outcome |-> "queued"]
    ELSE [Orders |-> buffer,
          resp |-> HttpError(w, "service temporarily unavailable",
                             StatusServiceUnavailable),
          outcome |-> "queue_full"]

\* The whole of CreateOrderHandler for request r.
CreateOrderHandler(r) ==
    /\ UNCHANGED <<Results, ordersClosed, resultsClosed, cancelled, Wg,
                   counters, workerVars, closePc, received, readerDone, probe,
                   stats, request, health, mainPc, dequeuedBy, created, pushed,
                   dropped, atCancel>>
    /\ IF r.Method # "POST"
       THEN /\ resp' = WriteHeader(NewResponse, StatusMethodNotAllowed)
            /\ outcome' = "method_not_allowed"
            /\ UNCHANGED <<Orders, nextId, faults, admitted, rejected>>
       ELSE IF ~r.Decodes
       THEN /\ resp' = HttpError(NewResponse, "invalid JSON", StatusBadRequest)
            /\ outcome' = "invalid_json"
            /\ UNCHANGED <<Orders, nextId, faults, admitted, rejected>>
       ELSE IF Validate(Prepared(r)) # ""
       THEN /\ resp' = HttpError(NewResponse, Validate(Prepared(r)), StatusBadRequest)
            /\ outcome' = "invalid_order"
            /\ UNCHANGED <<Orders, nextId, faults, admitted, rejected>>
       ELSE LET after == Offer(Orders, ordersClosed, Prepared(r), Accepted)
            IN  /\ Orders' = after.Orders
                /\ resp' = after.resp
                /\ outcome' = after.outcome
                /\ nextId' = Prepared(r).ID
                /\ faults' = IF after.outcome = "panic"
                             THEN faults \cup {"send on closed Orders"}
                             ELSE faults
                /\ admitted' = IF after.outcome = "queued"
                               THEN admitted \cup {Prepared(r).ID}
                               ELSE admitted
                /\ rejected' = IF after.outcome = "queue_full"
                               THEN rejected \cup {Prepared(r).ID}
                               ELSE rejected

\* A request arrives: the caller names the order itself or leaves the id out.
Submit(requests) ==
    /\ nextId < MaxOrders
    /\ \E r \in requests, id \in {0, nextId + 1} :
         CreateOrderHandler([r EXCEPT !.Order.ID = id])

Request == Submit(Requests)

\* The clients send nothing but one well-formed order, again and again.
PlainRequests == {[Method |-> "POST", Decodes |-> TRUE, Order |-> ValidBody]}

PlainRequest == Submit(PlainRequests)

\* One request, any of a wide range: every field of the order empty, inside,
\* at and beyond the limits the handler and the pool test it against.
WideBodies ==
    [ID : {0, 1},
     Amount : {0, 500, 1000, 1001, 1500, 10000, 10001},
     NItems : {0, 1, 50, 51},
     Customer : {"", "c"},
     Status : {"", "paid", "bogus"},
     Address : {"", "a"},
     Priority : {0, 1, 2, 3, 4}]

WideRequests ==
    { [Method |-> "GET", Decodes |-> TRUE, Order |-> ValidBody],
      [Method |-> "POST", Decodes |-> FALSE, Order |-> ZeroOrder] }
    \cup { [Method |-> "POST", Decodes |-> TRUE, Order |-> b] : b \in WideBodies }

\* The one request of a single-request run reaches the handler.
HandleRequest ==
    /\ outcome = "none"
    /\ CreateOrderHandler(request)

\* Orders of low and of high priority, and nothing else.
PriorityRequests ==
    { [Method |-> "POST", Decodes |-> TRUE,
       Order |-> [ValidBody EXCEPT !.Priority = p]] : p \in {1, 3} }

PriorityRequest ==
    /\ nextId < MaxPriorityOrders
    /\ Submit(PriorityRequests)

----------------------------------------------------------------------------
(* Pool.worker(w).  Positions: "select" is the outer select, "process" the  *)
(* call of processOrder, "send" the inner select, "count1".."count3" the    *)
(* three atomic updates, "stopped" after the return (the deferred Wg.Done). *)

\* The place in a buffer of orders of the most urgent one (lowest Priority),
\* the earliest among equals.
MostUrgent(q) ==
    CHOOSE i \in 1 .. Len(q) :
        \A j \in 1 .. Len(q) :
            \/ q[i].Priority < q[j].Priority
            \/ (q[i].Priority = q[j].Priority /\ i <= j)

\* A priority queue in place of the channel: a worker takes the most urgent
\* waiting order.
WorkerReceiveUrgent(w) ==
    /\ wpc[w] = "select"
    /\ CanRecv(Orders)
    /\ LET i == MostUrgent(Orders)
       IN  /\ order' = [order EXCEPT ![w] = Orders[i]]
           /\ Orders' = SubSeq(Orders, 1, i - 1) \o
                           SubSeq(Orders, i + 1, Len(Orders))
           /\ dequeuedBy' = dequeuedBy \cup {<<Orders[i].ID, w>>}
    /\ wpc' = [wpc EXCEPT ![w] = "process"]
    /\ UNCHANGED <<Results, ordersClosed, resultsClosed, cancelled, Wg,
                   counters, processedOrder, closePc, resp, outcome, probe,
                   stats, request, health, mainPc, nextId, received,
                   readerDone, faults, admitted, rejected, created, pushed,
                   dropped, atCancel>>

\* A stack in place of the channel: a worker takes the order admitted last.
WorkerReceiveNewest(w) ==
    /\ wpc[w] = "select"
    /\ CanRecv(Orders)
    /\ order' = [order EXCEPT ![w] = Orders[Len(Orders)]]
    /\ Orders' = SubSeq(Orders, 1, Len(Orders) - 1)
    /\ wpc' = [wpc EXCEPT ![w] = "process"]
    /\ dequeuedBy' = dequeuedBy \cup {<<Orders[Len(Orders)].ID, w>>}
    /\ UNCHANGED <<Results, ordersClosed, resultsClosed, cancelled, Wg,
                   counters, processedOrder, closePc, resp, outcome, probe,
                   stats, request, health, mainPc, nextId, received,
                   readerDone, faults, admitted, rejected, created, pushed,
                   dropped, atCancel>>

\* A faulty worker: it takes the next order while it still holds the result
\* of the last one, which is lost.
WorkerReceiveEarly(w) ==
    /\ wpc[w] \in {"select", "send"}
    /\ CanRecv(Orders)
    /\ order' = [order EXCEPT ![w] = Head(Orders)]
    /\ Orders' = Tail(Orders)
    /\ wpc' = [wpc EXCEPT ![w] = "process"]
    /\ dequeuedBy' = dequeuedBy \cup {<<Head(Orders).ID, w>>}
    /\ UNCHANGED <<Results, ordersClosed, resultsClosed, cancelled, Wg,
                   counters, processedOrder, closePc, resp, outcome, probe,
                   stats, request, health, mainPc, nextId, received,
                   readerDone, faults, admitted, rejected, created, pushed,
                   dropped, atCancel>>

\* A faulty receive: the worker takes the oldest order and leaves it on the
\* queue.
WorkerReceivePeek(w) ==
    /\ wpc[w] = "select"
    /\ CanRecv(Orders)
    /\ order' = [order EXCEPT ![w] = Head(Orders)]
    /\ wpc' = [wpc EXCEPT ![w] = "process"]
    /\ dequeuedBy' = dequeuedBy \cup {<<Head(Orders).ID, w>>}
    /\ UNCHANGED <<Orders, Results, ordersClosed, resultsClosed, cancelled, Wg,
                   counters, processedOrder, closePc, resp, outcome, probe,
                   stats, request, health, mainPc, nextId, received,
                   readerDone, faults, admitted, rejected, created, pushed,
                   dropped, atCancel>>

\* A faulty receive: a worker takes an order only when another one waits
\* behind it.
WorkerReceiveWhenBacklog(w) ==
    /\ wpc[w] = "select"
    /\ Len(Orders) > 1
    /\ order' = [order EXCEPT ![w] = Head(Orders)]
    /\ Orders' = Tail(Orders)
    /\ wpc' = [wpc EXCEPT ![w] = "process"]
    /\ dequeuedBy' = dequeuedBy \cup {<<Head(Orders).ID, w>>}
    /\ UNCHANGED <<Results, ordersClosed, resultsClosed, cancelled, Wg,
                   counters, processedOrder, closePc, resp, outcome, probe,
                   stats, request, health, mainPc, nextId, received,
                   readerDone, faults, admitted, rejected, created, pushed,
                   dropped, atCancel>>

\* Outer select, case order, ok := <-p.Orders with ok true.
WorkerReceive(w) ==
    /\ wpc[w] = "select"
    /\ CanRecv(Orders)
    /\ order' = [order EXCEPT ![w] = Head(Orders)]
    /\ Orders' = Tail(Orders)
    /\ wpc' = [wpc EXCEPT ![w] = "process"]
    /\ dequeuedBy' = dequeuedBy \cup {<<Head(Orders).ID, w>>}
    /\ UNCHANGED <<Results, ordersClosed, resultsClosed, cancelled, Wg,
                   counters, processedOrder, closePc, resp, outcome, probe,
                   stats, request, health, mainPc, nextId, received,
                   readerDone, faults, admitted, rejected, created, pushed,
                   dropped, atCancel>>

\* Outer select, case <-p.Ctx.Done(), or the receive from a closed and
\* drained p.Orders (ok false): return.
WorkerStop(w) ==
    /\ wpc[w] = "select"
    /\ (cancelled \/ (ordersClosed /\ ~CanRecv(Orders)))
    /\ wpc' = [wpc EXCEPT ![w] = "stopped"]
    /\ Wg' = Wg - 1
    /\ UNCHANGED <<Orders, Results, ordersClosed, resultsClosed, cancelled,
                   counters, order, processedOrder, closePc, resp, outcome,
                   probe, stats, request, health, mainPc, nextId, received,
                   readerDone, faults, histVars>>

\* processedOrder := p.processOrder(order, id, startTime)
WorkerProcess(w) ==
    /\ wpc[w] = "process"
    /\ \E elapsed \in ElapsedTimes(order[w]) :
         /\ processedOrder' =
              [processedOrder EXCEPT ![w] = processOrder(order[w], w, elapsed)]
         /\ created' = created \cup {processOrder(order[w], w, elapsed)}
    /\ wpc' = [wpc EXCEPT ![w] = "send"]
    /\ UNCHANGED <<poolVars, order, closePc, resp, outcome, probe, stats,
                   request, health, mainPc, nextId, received, readerDone,
                   faults, admitted, rejected, dequeuedBy, pushed, dropped,
                   atCancel>>

\* A faulty inner select: the send goes through whether or not Results has
\* room.
WorkerSendAlways(w) ==
    /\ wpc[w] = "send"
    /\ IF resultsClosed
       THEN /\ faults' = faults \cup {"send on closed Results"}
            /\ wpc' = [wpc EXCEPT ![w] = "stopped"]
            /\ Wg' = Wg - 1
            /\ UNCHANGED <<Results, pushed>>
       ELSE /\ Results' = Append(Results, processedOrder[w])
            /\ pushed' = Append(pushed, processedOrder[w])
            /\ wpc' = [wpc EXCEPT ![w] = "count1"]
            /\ UNCHANGED <<Wg, faults>>
    /\ UNCHANGED <<Orders, ordersClosed, resultsClosed, cancelled, counters,
                   order, processedOrder, closePc, resp, outcome, probe, stats,
                   request, health, mainPc, nextId, received, readerDone,
                   admitted, rejected, dequeuedBy, created, dropped, atCancel>>

\* Inner select, case p.Results <- processedOrder.  A send on a closed
\* channel panics; the deferred Wg.Done still runs.
WorkerSend(w) ==
    /\ wpc[w] = "send"
    /\ (resultsClosed \/ CanSend(Results))
    /\ IF resultsClosed
       THEN /\ faults' = faults \cup {"send on closed Results"}
            /\ wpc' = [wpc EXCEPT ![w] = "stopped"]
            /\ Wg' = Wg - 1
            /\ UNCHANGED <<Results, pushed>>
       ELSE /\ Results' = Append(Results, processedOrder[w])
            /\ pushed' = Append(pushed, processedOrder[w])
            /\ wpc' = [wpc EXCEPT ![w] = "count1"]
            /\ UNCHANGED <<Wg, faults>>
    /\ UNCHANGED <<Orders, ordersClosed, resultsClosed, cancelled, counters,
                   order, processedOrder, closePc, resp, outcome, probe, stats,
                   request, health, mainPc, nextId, received, readerDone,
                   admitted, rejected, dequeuedBy, created, dropped, atCancel>>

\* A faulty drop: the dropped result is counted as processed all the same.
WorkerDropCounted(w) ==
    /\ wpc[w] = "send"
    /\ cancelled
    /\ wpc' = [wpc EXCEPT ![w] = "stopped"]
    /\ Wg' = Wg - 1
    /\ dropped' = dropped \cup {processedOrder[w].Order.ID}
    /\ Processed' = Processed + 1
    /\ UNCHANGED <<Orders, Results, ordersClosed, resultsClosed, cancelled,
                   SuccessCount, ErrorCount, TotalTime, order, processedOrder,
                   closePc, resp, outcome, probe, stats, request, health,
                   mainPc, nextId, received, readerDone, faults, admitted,
                   rejected, dequeuedBy, created, pushed, atCancel>>

\* A faulty drop: the worker gives the result up as soon as Results is full,
\* cancelled or not.
WorkerDropWhenFull(w) ==
    /\ wpc[w] = "send"
    /\ ~CanSend(Results)
    /\ wpc' = [wpc EXCEPT ![w] = "stopped"]
    /\ Wg' = Wg - 1
    /\ dropped' = dropped \cup {processedOrder[w].Order.ID}
    /\ UNCHANGED <<Orders, Results, ordersClosed, resultsClosed, cancelled,
                   counters, order, processedOrder, closePc, resp, outcome,
                   probe, stats, request, health, mainPc, nextId, received,
                   readerDone, faults, admitted, rejected, dequeuedBy, created,
                   pushed, atCancel>>

\* A faulty inner select: no ctx.Done case, the send just blocks.
WorkerDropNever(w) ==
    /\ wpc[w] = "send"
    /\ FALSE
    /\ UNCHANGED vars

\* Inner select, case <-p.Ctx.Done(): return, the result is dropped.
WorkerDrop(w) ==
    /\ wpc[w] = "send"
    /\ cancelled
    /\ wpc' = [wpc EXCEPT ![w] = "stopped"]
    /\ Wg' = Wg - 1
    /\ dropped' = dropped \cup {processedOrder[w].Order.ID}
    /\ UNCHANGED <<Orders, Results, ordersClosed, resultsClosed, cancelled,
                   counters, order, processedOrder, closePc, resp, outcome,
                   probe, stats, request, health, mainPc, nextId, received,
                   readerDone, faults, admitted, rejected, dequeuedBy, created,
                   pushed, atCancel>>

\* A faulty first update: a worker that finds the context cancelled after
\* its push returns without counting.
WorkerCountProcessedUnlessCancelled(w) ==
    /\ wpc[w] = "count1"
    /\ IF cancelled
       THEN /\ wpc' = [wpc EXCEPT ![w] = "stopped"]
            /\ Wg' = Wg - 1
            /\ UNCHANGED Processed
       ELSE /\ wpc' = [wpc EXCEPT ![w] = "count2"]
            /\ Processed' = Processed + 1
            /\ UNCHANGED Wg
    /\ UNCHANGED <<Orders, Results, ordersClosed, resultsClosed, cancelled,
                   SuccessCount, ErrorCount, TotalTime, order, processedOrder,
                   closePc, resp, outcome, probe, stats, request, health,
                   mainPc, nextId, received, readerDone, faults, histVars>>

\* A faulty first update: the order is counted twice.
WorkerCountProcessedTwice(w) ==
    /\ wpc[w] = "count1"
    /\ Processed' = Processed + 2
    /\ wpc' = [wpc EXCEPT ![w] = "count2"]
    /\ UNCHANGED <<Orders, Results, ordersClosed, resultsClosed, cancelled, Wg,
                   SuccessCount, ErrorCount, TotalTime, order, processedOrder,
                   closePc, resp, outcome, probe, stats, request, health,
                   mainPc, nextId, received, readerDone, faults, histVars>>

\* atomic.AddInt64(&p.Processed, 1)
WorkerCountProcessed(w) ==
    /\ wpc[w] = "count1"
    /\ Processed' = Processed + 1
    /\ wpc' = [wpc EXCEPT ![w] = "count2"]
    /\ UNCHANGED <<Orders, Results, ordersClosed, resultsClosed, cancelled, Wg,
                   SuccessCount, ErrorCount, TotalTime, order, processedOrder,
                   closePc, resp, outcome, probe, stats, request, health,
                   mainPc, nextId, received, readerDone, faults, histVars>>

\* A faulty outcome count: failed orders are not counted.
WorkerCountOutcomeSuccessOnly(w) ==
    /\ wpc[w] = "count2"
    /\ IF processedOrder[w].Success
       THEN SuccessCount' = SuccessCount + 1 /\ UNCHANGED ErrorCount
       ELSE UNCHANGED <<SuccessCount, ErrorCount>>
    /\ wpc' = [wpc EXCEPT ![w] = "count3"]
    /\ UNCHANGED <<Orders, Results, ordersClosed, resultsClosed, cancelled, Wg,
                   Processed, TotalTime, order, processedOrder, closePc, resp,
                   outcome, probe, stats, request, health, mainPc, nextId,
                   received, readerDone, faults, histVars>>

\* A faulty outcome count: every result is counted as a success.
WorkerCountOutcomeAsSuccess(w) ==
    /\ wpc[w] = "count2"
    /\ SuccessCount' = SuccessCount + 1
    /\ wpc' = [wpc EXCEPT ![w] = "count3"]
    /\ UNCHANGED <<Orders, Results, ordersClosed, resultsClosed, cancelled, Wg,
                   Processed, ErrorCount, TotalTime, order, processedOrder,
                   closePc, resp, outcome, probe, stats, request, health,
                   mainPc, nextId, received, readerDone, faults, histVars>>

\* if processedOrder.Success { SuccessCount++ } else { ErrorCount++ }
WorkerCountOutcome(w) ==
    /\ wpc[w] = "count2"
    /\ IF processedOrder[w].Success
       THEN SuccessCount' = SuccessCount + 1 /\ UNCHANGED ErrorCount
       ELSE ErrorCount' = ErrorCount + 1 /\ UNCHANGED SuccessCount
    /\ wpc' = [wpc EXCEPT ![w] = "count3"]
    /\ UNCHANGED <<Orders, Results, ordersClosed, resultsClosed, cancelled, Wg,
                   Processed, TotalTime, order, processedOrder, closePc, resp,
                   outcome, probe, stats, request, health, mainPc, nextId,
                   received, readerDone, faults, histVars>>

\* A faulty loop: a failed order ends the worker.
WorkerCountTimeFatal(w) ==
    /\ wpc[w] = "count3"
    /\ TotalTime' = TotalTime + processedOrder[w].ProcessingTime
    /\ IF processedOrder[w].Success
       THEN /\ wpc' = [wpc EXCEPT ![w] = "select"]
            /\ order' = [order EXCEPT ![w] = ZeroOrder]
            /\ processedOrder' = [processedOrder EXCEPT ![w] = ZeroProcessed]
            /\ UNCHANGED Wg
       ELSE /\ wpc' = [wpc EXCEPT ![w] = "stopped"]
            /\ Wg' = Wg - 1
            /\ UNCHANGED <<order, processedOrder>>
    /\ UNCHANGED <<Orders, Results, ordersClosed, resultsClosed, cancelled,
                   Processed, SuccessCount, ErrorCount, closePc, resp, outcome,
                   probe, stats, request, health, mainPc, nextId, received,
                   readerDone, faults, histVars>>

\* atomic.AddInt64(&p.TotalTime, processedOrder.ProcessingTime); next iteration.
WorkerCountTime(w) ==
    /\ wpc[w] = "count3"
    /\ TotalTime' = TotalTime + processedOrder[w].ProcessingTime
    /\ wpc' = [wpc EXCEPT ![w] = "select"]
    /\ order' = [order EXCEPT ![w] = ZeroOrder]
    /\ processedOrder' = [processedOrder EXCEPT ![w] = ZeroProcessed]
    /\ UNCHANGED <<Orders, Results, ordersClosed, resultsClosed, cancelled, Wg,
                   Processed, SuccessCount, ErrorCount, closePc, resp, outcome,
                   probe, stats, request, health, mainPc, nextId, received,
                   readerDone, faults, histVars>>

Worker(w) ==
    \/ WorkerReceive(w)
    \/ WorkerStop(w)
    \/ WorkerProcess(w)
    \/ WorkerSend(w)
    \/ WorkerDrop(w)
    \/ WorkerCountProcessed(w)
    \/ WorkerCountOutcome(w)
    \/ WorkerCountTime(w)

----------------------------------------------------------------------------
(* Close(pool), run once by some goroutine.                                 *)

\* Whether worker w holds an order it has received and not yet sent on.
MidTask(w) == wpc[w] \in {"process", "send"}

\* pool.Cancel()
CloseCancel ==
    /\ closePc = "idle"
    /\ cancelled' = TRUE
    /\ closePc' = "wait"
    /\ atCancel' = [called |-> TRUE,
                    midTask |-> \E w \in WorkerIDs : MidTask(w),
                    queued |-> Len(Orders),
                    admitted |-> admitted]
    /\ UNCHANGED <<Orders, Results, ordersClosed, resultsClosed, Wg, counters,
                   workerVars, resp, outcome, probe, stats, request, health,
                   mainPc, nextId, received, readerDone, faults, admitted,
                   rejected, dequeuedBy, created, pushed, dropped>>

\* A faulty Close: it does not wait for the workers.
WaitDoneNoWait == TRUE

\* Whether pool.Wg.Wait() can return.
WaitDone == Wg = 0

\* pool.Wg.Wait()
CloseWait ==
    /\ closePc = "wait"
    /\ WaitDone
    /\ closePc' = "closeOrders"
    /\ UNCHANGED <<poolVars, workerVars, resp, outcome, probe, stats, request,
                   health, mainPc, nextId, received, readerDone, faults,
                   histVars>>

\* close(pool.Orders)
CloseOrders ==
    /\ closePc = "closeOrders"
    /\ ordersClosed' = TRUE
    /\ closePc' = "closeResults"
    /\ UNCHANGED <<Orders, Results, resultsClosed, cancelled, Wg, counters,
                   workerVars, resp, outcome, probe, stats, request, health,
                   mainPc, nextId, received, readerDone, faults, histVars>>

\* A faulty close of the output queue: the results still buffered are thrown
\* away.
CloseResultsDiscard ==
    /\ closePc = "closeResults"
    /\ resultsClosed' = TRUE
    /\ Results' = <<>>
    /\ closePc' = "done"
    /\ UNCHANGED <<Orders, ordersClosed, cancelled, Wg, counters, workerVars,
                   resp, outcome, probe, stats, request, health, mainPc,
                   nextId, received, readerDone, faults, histVars>>

\* close(pool.Results); Close returns.
CloseResults ==
    /\ closePc = "closeResults"
    /\ resultsClosed' = TRUE
    /\ closePc' = "done"
    /\ UNCHANGED <<Orders, Results, ordersClosed, cancelled, Wg, counters,
                   workerVars, resp, outcome, probe, stats, request, health,
                   mainPc, nextId, received, readerDone, faults, histVars>>

Close == CloseCancel \/ CloseWait \/ CloseOrders \/ CloseResults

----------------------------------------------------------------------------
(* The result reader of main: for result := range pool.Results { log }.     *)

ReaderReceive ==
    /\ ~readerDone
    /\ CanRecv(Results)
    /\ received' = Append(received, Head(Results))
    /\ Results' = Tail(Results)
    /\ UNCHANGED <<Orders, ordersClosed, resultsClosed, cancelled, Wg,
                   counters, workerVars, closePc, resp, outcome, probe, stats,
                   request, health, mainPc, nextId, readerDone, faults,
                   histVars>>

\* The range loop ends when the channel is closed and drained.
ReaderEnd ==
    /\ ~readerDone
    /\ resultsClosed
    /\ ~CanRecv(Results)
    /\ readerDone' = TRUE
    /\ UNCHANGED <<poolVars, workerVars, closePc, resp, outcome, probe, stats,
                   request, health, mainPc, nextId, received, faults,
                   histVars>>

Reader == ReaderReceive \/ ReaderEnd

----------------------------------------------------------------------------
(* The pool's read-only accessors, called by whoever holds the pool.        *)

\* A faulty IsHealthy: a full queue still counts as healthy.
IsHealthyAtCapacity == ~cancelled /\ Len(Orders) <= Buf

\* Pool.IsHealthy: p.Ctx.Err() == nil && len(p.Orders) < cap(p.Orders)
IsHealthy == ~cancelled /\ Len(Orders) < Buf

\* A call of Pool.IsHealthy; probe keeps what it returned.
IsHealthyCall ==
    /\ probe' = [op |-> "IsHealthy", ret |-> IsHealthy]
    /\ UNCHANGED <<poolVars, workerVars, closePc, resp, outcome, nextId,
                   received, readerDone, faults, stats, request, health,
                   mainPc, histVars>>

\* Pool.GetQueueLength: len(p.Orders)
GetQueueLength == Len(Orders)

HealthFrame ==
    UNCHANGED <<poolVars, workerVars, closePc, resp, outcome, nextId, received,
                readerDone, faults, probe, stats, request, mainPc, histVars>>

\* HealthCheckHandler builds its answer from three separate reads of the
\* pool, between which handlers, workers and Close run on.  First, in the
\* map literal, "healthy": pool.IsHealthy().
HealthReadHealthy ==
    /\ health.pc = "idle"
    /\ health.calls < MaxHealthCalls
    /\ health' = [health EXCEPT !.pc = "queue_length", !.healthy = IsHealthy]
    /\ HealthFrame

\* "queue_length": pool.GetQueueLength().
HealthReadQueueLength ==
    /\ health.pc = "queue_length"
    /\ health' = [health EXCEPT !.pc = "status",
                                !.queue_length = GetQueueLength]
    /\ HealthFrame

\* if !pool.IsHealthy() { status = "unhealthy"; WriteHeader(503) }, then the
\* map is encoded into the response.
HealthRespond ==
    /\ health.pc = "status"
    /\ LET body == [status |-> IF IsHealthy THEN "healthy" ELSE "unhealthy",
                    healthy |-> health.healthy,
                    queue_length |-> health.queue_length,
                    workers |-> Workers]
           w == IF IsHealthy
                THEN NewResponse
                ELSE WriteHeader(NewResponse, StatusServiceUnavailable)
       IN  health' = [health EXCEPT !.pc = "idle",
                                    !.body = body,
                                    !.resp = Write(w, "health"),
                                    !.calls = @ + 1]
    /\ HealthFrame

HealthCheckHandler ==
    \/ HealthReadHealthy
    \/ HealthReadQueueLength
    \/ HealthRespond

----------------------------------------------------------------------------
(* Pool.Stats, called by one goroutine at a time (GetStatsHandler).  The    *)
(* four counters are read by four separate atomic loads, between which the *)
(* workers run on; the rest of the call is one step.                        *)

RECURSIVE GCD(_, _)
GCD(a, b) == IF b = 0 THEN a ELSE GCD(b, a % b)

\* float64(totalTime) / float64(processed) with processed > 0.
Quotient(totalTime, processed) ==
    LET g == GCD(totalTime, processed)
    IN  <<totalTime \div g, processed \div g>>

StatsFrame ==
    UNCHANGED <<poolVars, workerVars, closePc, resp, outcome, nextId, received,
                readerDone, faults, probe, request, health, mainPc, histVars>>

\* A faulty first load: the counter is read and reset.
StatsLoadProcessedAndReset ==
    /\ stats.pc = "idle"
    /\ stats.calls < MaxStatsCalls
    /\ stats' = [stats EXCEPT !.pc = "success", !.processed = Processed,
                              !.before = stats.began, !.began = counters]
    /\ Processed' = 0
    /\ UNCHANGED <<Orders, Results, ordersClosed, resultsClosed, cancelled, Wg,
                   SuccessCount, ErrorCount, TotalTime, workerVars, closePc,
                   resp, outcome, nextId, received, readerDone, faults, probe,
                   request, health, mainPc, histVars>>

\* processed := atomic.LoadInt64(&p.Processed)
StatsLoadProcessed ==
    /\ stats.pc = "idle"
    /\ stats.calls < MaxStatsCalls
    /\ stats' = [stats EXCEPT !.pc = "success", !.processed = Processed,
                              !.before = stats.began, !.began = counters]
    /\ StatsFrame

\* success := atomic.LoadInt64(&p.SuccessCount)
StatsLoadSuccess ==
    /\ stats.pc = "success"
    /\ stats' = [stats EXCEPT !.pc = "error", !.success = SuccessCount]
    /\ StatsFrame

\* error := atomic.LoadInt64(&p.ErrorCount)
StatsLoadError ==
    /\ stats.pc = "error"
    /\ stats' = [stats EXCEPT !.pc = "time", !.error = ErrorCount]
    /\ StatsFrame

\* totalTime := atomic.LoadInt64(&p.TotalTime)
StatsLoadTotalTime ==
    /\ stats.pc = "time"
    /\ stats' = [stats EXCEPT !.pc = "return", !.totalTime = TotalTime]
    /\ StatsFrame

\* A faulty snapshot: the average is taken from TotalTime as it is at the
\* return, not from the value loaded.
SnapshotLive(st, uptime) ==
    [TotalProcessed |-> st.processed,
     SuccessCount |-> st.success,
     ErrorCount |-> st.error,
     AverageProcessTime |-> IF st.processed > 0
                            THEN Quotient(TotalTime, st.processed)
                            ELSE <<0, 1>>,
     ActiveWorkers |-> Workers,
     QueueLength |-> Len(Orders),
     Uptime |-> uptime]

\* The snapshot Stats builds from its locals, the pool's fields and the
\* whole seconds of uptime the clock shows.
Snapshot(st, uptime) ==
    [TotalProcessed |-> st.processed,
     SuccessCount |-> st.success,
     ErrorCount |-> st.error,
     AverageProcessTime |-> IF st.processed > 0
                            THEN Quotient(st.totalTime, st.processed)
                            ELSE <<0, 1>>,
     ActiveWorkers |-> Workers,
     QueueLength |-> Len(Orders),
     Uptime |-> uptime]

\* avgTime; uptime := int64(time.Since(p.StartTime).Seconds()); return.  The
\* clock does not run backwards.
StatsReturn ==
    /\ stats.pc = "return"
    /\ \E uptime \in stats.snap.Uptime .. MaxUptime :
         stats' = [stats EXCEPT !.pc = "idle", !.processed = 0, !.success = 0,
                                !.error = 0, !.totalTime = 0,
                                !.snap = Snapshot(stats, uptime),
                                !.calls = stats.calls + 1]
    /\ StatsFrame

Stats ==
    \/ StatsLoadProcessed
    \/ StatsLoadSuccess
    \/ StatsLoadError
    \/ StatsLoadTotalTime
    \/ StatsReturn

----------------------------------------------------------------------------

Next ==
    \/ Request
    \/ \E w \in WorkerIDs : Worker(w)
    \/ Close
    \/ Reader

Spec == Init /\ [][Next]_vars

\* The steps of Close after pool.Cancel().
CloseProceed == CloseWait \/ CloseOrders \/ CloseResults

\* Scheduling: a worker goroutine that can take a step takes one; a select
\* chooses among its ready cases at random, so a case that is ready again and
\* again is taken; the goroutine that has called Close runs on.  Nothing is
\* assumed of the HTTP clients, of the reader of Results, or of whether Close
\* is called at all.
Fairness ==
    /\ \A w \in WorkerIDs :
         /\ WF_vars(Worker(w))
         /\ SF_vars(WorkerStop(w))
         /\ SF_vars(WorkerDrop(w))
    /\ WF_vars(CloseProceed)

NextPlain ==
    \/ PlainRequest
    \/ \E w \in WorkerIDs : Worker(w)
    \/ Close
    \/ Reader

FairSpec == Init /\ [][NextPlain]_vars /\ Fairness

\* The pool under plain requests, observed through its accessors.
NextProbe ==
    \/ NextPlain
    \/ IsHealthyCall

ProbeSpec == Init /\ [][NextProbe]_vars

\* The pool serving a single request drawn from WideRequests.
InitOne == Started /\ request \in WideRequests

NextOne ==
    \/ HandleRequest
    \/ \E w \in WorkerIDs : Worker(w)
    \/ Close
    \/ Reader

OneOrderSpec == InitOne /\ [][NextOne]_vars

\* The same under fair scheduling of the workers and of Close.
FairOneOrderSpec == InitOne /\ [][NextOne]_vars /\ Fairness

\* The pool under a few orders of priority 1 and 3.
NextPriority ==
    \/ PriorityRequest
    \/ \E w \in WorkerIDs : Worker(w)
    \/ Close
    \/ Reader

PrioritySpec == Init /\ [][NextPriority]_vars

\* The pool under a few plain requests while Pool.Stats is called.
StatsRequest ==
    /\ nextId < MaxStatsOrders
    /\ PlainRequest

NextStats ==
    \/ StatsRequest
    \/ \E w \in WorkerIDs : Worker(w)
    \/ Close
    \/ Reader
    \/ Stats

StatsSpec == Init /\ [][NextStats]_vars

\* The pool under a few plain requests while GET /health is served.
HealthRequest ==
    /\ nextId < MaxHealthOrders
    /\ PlainRequest

NextHealth ==
    \/ HealthRequest
    \/ \E w \in WorkerIDs : Worker(w)
    \/ Close
    \/ Reader
    \/ HealthCheckHandler

HealthSpec == Init /\ [][NextHealth]_vars

----------------------------------------------------------------------------
(* func main: Start, defer Close(pool), the reader goroutine, then           *)
(* log.Fatal(srv.ListenAndServe()).  ListenAndServe always returns a non-nil *)
(* error, and log.Fatal prints it and calls os.Exit(1): the process ends     *)
(* there, with every goroutine, and main never returns, so the deferred      *)
(* Close(pool), the program's only call of Close, is never run.              *)

\* srv.ListenAndServe() returns and log.Fatal exits the process.
ListenAndServeFails ==
    /\ mainPc = "serving"
    /\ mainPc' = "exited"
    /\ UNCHANGED <<poolVars, workerVars, closePc, resp, outcome, nextId,
                   received, readerDone, faults, probe, stats, request, health,
                   histVars>>

\* While the process lives the server hands POST /orders to the handler, and
\* the workers and the reader run; without a call of Close the context is
\* never cancelled and no channel is closed, which leaves the workers their
\* receive, processOrder, send and counter steps and the reader its receive.
MainRequest == mainPc = "serving" /\ PlainRequest

MainWorker(w) ==
    /\ mainPc = "serving"
    /\ \/ WorkerReceive(w)
       \/ WorkerProcess(w)
       \/ WorkerSend(w)
       \/ WorkerCountProcessed(w)
       \/ WorkerCountOutcome(w)
       \/ WorkerCountTime(w)

MainReader == mainPc = "serving" /\ ReaderReceive

NextMain ==
    \/ MainRequest
    \/ \E w \in WorkerIDs : MainWorker(w)
    \/ MainReader
    \/ ListenAndServeFails

MainSpec == Init /\ [][NextMain]_vars

----------------------------------------------------------------------------
(* Properties.                                                              *)

\* The ids of the results in a sequence or a set of ProcessedOrder values.
SeqIds(q) == {q[i].Order.ID : i \in 1 .. Len(q)}
SetIds(S) == {c.Order.ID : c \in S}

\* The ids of the orders waiting in a channel buffer of orders.
QueuedIds(q) == {q[i].ID : i \in 1 .. Len(q)}

AllStopped == \A w \in WorkerIDs : wpc[w] = "stopped"

\* No worker is between its send on Results and its success/error update.
OutcomesCounted == \A w \in WorkerIDs : wpc[w] \notin {"count1", "count2"}

\* A step of CreateOrderHandler that offers an order to the pool.
OfferStep == nextId' # nextId

\* C1: every admission attempt appends the task and succeeds when the input
\* queue holds fewer than Buf tasks, fails and leaves the queue unchanged
\* when it holds exactly Buf; the queue length is always within 0 .. Buf.
C1_AdmissionBounded ==
    /\ [][OfferStep =>
            IF Len(Orders) < Buf
            THEN /\ Len(Orders') = Len(Orders) + 1
                 /\ SubSeq(Orders', 1, Len(Orders)) = Orders
                 /\ Orders'[Len(Orders')].ID = nextId'
                 /\ outcome' = "queued"
            ELSE /\ Orders' = Orders
                 /\ outcome' = "queue_full"]_vars
    /\ [](Len(Orders) \in 0 .. Buf)

\* C1, where the claim fails: an order offered after Close has closed the
\* input queue, which had room.
C1_OfferedAfterClose ==
    /\ outcome = "panic"
    /\ Len(Orders) < Buf

\* C2: Close cancels, waits for the workers, then closes the queues: while a
\* queue is closed every worker is stopped, and no worker has sent on the
\* closed output queue.
C2_CloseOrder ==
    /\ (closePc \in {"closeOrders", "closeResults", "done"} =>
            cancelled /\ AllStopped /\ Wg = 0)
    /\ (ordersClosed \/ resultsClosed => AllStopped /\ cancelled)
    /\ (resultsClosed => ordersClosed)
    /\ "send on closed Results" \notin faults

\* C2: Close has returned after the workers pushed and dropped results.
C2_Witness ==
    /\ closePc = "done"
    /\ resultsClosed
    /\ Len(pushed) >= 1
    /\ dropped # {}

\* C3 as claimed: once Close has returned (no worker runs any more) every
\* admitted task has exactly one Result, made by the worker that dequeued it.
C3_ExactlyOneResult ==
    closePc = "done" =>
        \A id \in admitted :
            /\ Cardinality({c \in created : c.Order.ID = id}) = 1
            /\ \A c \in created :
                 c.Order.ID = id => <<id, c.WorkerID>> \in dequeuedBy

\* C3 amended: at most one Result per admitted task, made by the worker that
\* dequeued it, and exactly one once that worker has run processOrder on it;
\* a task is dequeued by at most one worker and only if it was admitted.
C3_AtMostOneResult ==
    /\ \A c \in created :
         /\ c.Order.ID \in admitted
         /\ <<c.Order.ID, c.WorkerID>> \in dequeuedBy
    /\ \A c, d \in created : c.Order.ID = d.Order.ID => c = d
    /\ \A p, q \in dequeuedBy : p[1] = q[1] => p = q
    /\ \A p \in dequeuedBy :
         /\ p[1] \in admitted
         /\ (wpc[p[2]] = "process" /\ order[p[2]].ID = p[1])
              \/ p[1] \in SetIds(created)

\* C3: two workers have each made a Result, and a third admitted task has none.
C3_Witness ==
    /\ \E c, d \in created : c.WorkerID # d.WorkerID
    /\ \E id \in admitted : id \notin SetIds(created)
    /\ AllStopped

\* C4 as claimed: when the reader has received a Result for each of the N
\* admitted tasks, Processed = N and SuccessCount + ErrorCount = N.
C4_CountersWhenDrained ==
    (admitted # {} /\ admitted \subseteq SeqIds(received)) =>
        /\ Processed = Cardinality(admitted)
        /\ SuccessCount + ErrorCount = Cardinality(admitted)

\* C4 amended: the same, once no worker is between its push and its
\* success/error update.
C4_CountersWhenSettled ==
    (admitted # {} /\ admitted \subseteq SeqIds(received) /\ OutcomesCounted) =>
        /\ Processed = Cardinality(admitted)
        /\ SuccessCount + ErrorCount = Cardinality(admitted)

\* C4: every order the clients may send was admitted, drained and counted,
\* successes and failures among them.
C4_Witness ==
    /\ Cardinality(admitted) = MaxOrders
    /\ admitted \subseteq SeqIds(received)
    /\ OutcomesCounted
    /\ SuccessCount >= 1
    /\ ErrorCount >= 1

\* C5: a step that drops a computed Result changes none of the four counters,
\* and Processed never exceeds the number of Results pushed.
C5_DropNotCounted ==
    /\ [][dropped' # dropped => counters' = counters /\ pushed' = pushed]_vars
    /\ [](Processed <= Len(pushed))

\* C5: a Result was dropped after others had been pushed and counted.
C5_Witness ==
    /\ dropped # {}
    /\ Processed >= 1
    /\ TotalTime >= 1

\* C6: a refused admission changes neither queue nor any counter, and no
\* Result for the refused task is ever created, pushed, received or held.
C6_RejectionFrame ==
    /\ [][rejected' # rejected =>
            /\ Orders' = Orders
            /\ Results' = Results
            /\ counters' = counters
            /\ workerVars' = workerVars]_vars
    /\ [](\A id \in rejected :
            /\ id \notin admitted
            /\ id \notin QueuedIds(Orders)
            /\ id \notin {p[1] : p \in dequeuedBy}
            /\ id \notin SetIds(created)
            /\ id \notin SeqIds(pushed)
            /\ id \notin SeqIds(received)
            /\ \A w \in WorkerIDs : order[w].ID # id)

\* C6: an order was refused and the pool went on to finish the others.
C6_Witness ==
    /\ rejected # {}
    /\ Processed = Cardinality(admitted)
    /\ Processed >= Buf

\* C7: a valid order meeting a full input queue is answered 503 and not 201;
\* every 201 answer belongs to an order that was enqueued.
C7_FullQueueSignalled ==
    /\ (outcome = "queue_full" =>
            resp.status = StatusServiceUnavailable /\ resp.status # StatusCreated)
    /\ (resp.status = StatusCreated => outcome = "queued")

\* C9 as claimed: Close called while no worker holds a dequeued task returns
\* with all workers stopped and a Result pushed for every task admitted
\* before the call.
C9_NoLossWhenIdle ==
    (closePc = "done" /\ ~atCancel.midTask) =>
        /\ AllStopped
        /\ atCancel.admitted \subseteq SeqIds(pushed)

\* C9 amended: the same when, in addition, the input queue was empty at the
\* call.
C9_NoLossWhenIdleAndEmpty ==
    /\ (closePc \in {"closeOrders", "closeResults", "done"} => AllStopped)
    /\ (atCancel.called /\ ~atCancel.midTask /\ atCancel.queued = 0) =>
            atCancel.admitted \subseteq SeqIds(pushed)

\* C9: Close has returned; it was called after two tasks had been pushed, with
\* no worker mid-task and nothing queued.
C9_Witness ==
    /\ closePc = "done"
    /\ ~atCancel.midTask
    /\ atCancel.queued = 0
    /\ Cardinality(atCancel.admitted) >= 2

\* C8: once Close has been called, every worker eventually stops and Close
\* returns, whatever the pool was doing and whether or not Results is read.
C8_CloseTerminates ==
    (closePc # "idle") ~> (AllStopped /\ closePc = "done")

\* C8: Close has returned although it was called with a worker mid-task, the
\* output queue is full and was never read, and a blocked push was given up.
C8_Witness ==
    /\ closePc = "done"
    /\ atCancel.midTask
    /\ Len(Results) = Buf
    /\ received = <<>>
    /\ dropped # {}

\* C10: IsHealthy returns true exactly when cancellation has not fired and
\* the input queue holds fewer orders than its capacity, and changes nothing.
C10_IsHealthy ==
    [][probe' # probe =>
         /\ probe'.op = "IsHealthy"
         /\ probe'.ret = (~cancelled /\ Len(Orders) < Buf)
         /\ UNCHANGED <<poolVars, workerVars, closePc, resp, outcome, nextId,
                        received, readerDone, faults, histVars>>]_vars

\* C10: IsHealthy has just answered false for a pool that is not cancelled
\* and whose input queue is full.
C10_Witness ==
    /\ probe = [op |-> "IsHealthy", ret |-> FALSE]
    /\ ~cancelled
    /\ Len(Orders) = Buf

DequeuedIds == {p[1] : p \in dequeuedBy}

C13_PriorityFirst ==
    [][(/\ dequeuedBy' # dequeuedBy
        /\ \E i, j \in 1 .. Len(Orders) :
              Orders[i].Priority = 1 /\ Orders[j].Priority > 1)
       => \A w \in WorkerIDs :
              wpc[w] = "select" /\ wpc'[w] = "process"
                  => order'[w].Priority = 1]_vars

\* C14: a result that passed the pool's limit check is classified by the
\* first rule that applies, the amount rule before the priority rule: amount
\* over 1000 gives "priority_processing", else priority 1 gives "expedited",
\* else "processing"; an amount of exactly 1000 is not over the threshold.
C14_RuleClassification ==
    \A c \in created :
        c.Success =>
            /\ c.Order.Status =
                  IF c.Order.Amount > 1000 THEN "priority_processing"
                  ELSE IF c.Order.Priority = 1 THEN "expedited"
                  ELSE "processing"
            /\ (c.Order.Amount = 1500 /\ c.Order.Priority = 2
                   => c.Order.Status = "priority_processing")
            /\ (c.Order.Amount = 500 /\ c.Order.Priority = 1
                   => c.Order.Status = "expedited")
            /\ (c.Order.Amount = 500 /\ c.Order.Priority = 3
                   => c.Order.Status = "processing")
            /\ (c.Order.Amount = 1000 => c.Order.Status # "priority_processing")

\* An order that meets both rules was classified by its amount.
C14_Witness ==
    \E c \in created :
        /\ c.Success
        /\ c.Order.Amount = 1500
        /\ c.Order.Priority = 1
        /\ c.Order.Status = "priority_processing"

\* C15: an order of amount at most 10000 and at most 50 items is processed
\* to a result with Success true, no error, and one of the three statuses.
C15_WithinLimitsSucceeds ==
    \A c \in created :
        (c.Order.Amount <= 10000 /\ c.Order.NItems <= 50) =>
            /\ c.Success
            /\ c.Error = ""
            /\ c.Order.Status \in {"processing", "expedited", "priority_processing"}

C15_Witness ==
    \E c \in created :
        /\ c.Order.Amount = 10000
        /\ c.Order.NItems = 50
        /\ c.Success
        /\ c.Error = ""

\* Worker w has made its success/error update for the result it pushed.
OutcomeCountedBy(w) == wpc[w] \notin {"count1", "count2"}

\* C16: an order of amount over 10000 is processed to a result with Success
\* false and the amount-limit error, an amount of exactly 10000 is not
\* refused for its amount; the pushed result of the run's one order is never
\* counted in SuccessCount and, once its worker has made the update, is
\* counted exactly once in ErrorCount.
C16_AmountOverLimit ==
    /\ \A c \in created :
          /\ c.Order.Amount > 10000 =>
                ~c.Success /\ c.Error = "order amount exceeds limit"
          /\ c.Order.Amount = 10000 => c.Error # "order amount exceeds limit"
    /\ \A i \in 1 .. Len(pushed) :
          pushed[i].Order.Amount > 10000 =>
              /\ SuccessCount = 0
              /\ ErrorCount <= 1
              /\ OutcomeCountedBy(pushed[i].WorkerID) => ErrorCount = 1

C16_Witness ==
    /\ Len(pushed) = 1
    /\ pushed[1].Order.Amount = 10001
    /\ ~pushed[1].Success
    /\ ErrorCount = 1
    /\ SuccessCount = 0

\* C17: an order of more than 50 items and amount at most 10000 is processed
\* to a result with Success false and the item-count error, counted once in
\* ErrorCount and never in SuccessCount; an order over both limits gets the
\* amount error.
C17_ItemsOverLimit ==
    /\ \A c \in created :
          /\ (c.Order.NItems > 50 /\ c.Order.Amount <= 10000) =>
                ~c.Success /\ c.Error = "too many items in order"
          /\ (c.Order.NItems > 50 /\ c.Order.Amount > 10000) =>
                ~c.Success /\ c.Error = "order amount exceeds limit"
    /\ \A i \in 1 .. Len(pushed) :
          (pushed[i].Order.NItems > 50 /\ pushed[i].Order.Amount <= 10000) =>
              /\ SuccessCount = 0
              /\ ErrorCount <= 1
              /\ OutcomeCountedBy(pushed[i].WorkerID) => ErrorCount = 1

C17_Witness ==
    /\ Len(pushed) = 1
    /\ pushed[1].Order.NItems = 51
    /\ pushed[1].Order.Amount <= 10000
    /\ pushed[1].Error = "too many items in order"
    /\ ErrorCount = 1
    /\ SuccessCount = 0

\* A step of a Pool.Stats call, and the step on which a call returns.
StatsStep == stats' # stats
StatsReturns == stats.pc = "return" /\ stats'.pc = "idle"

\* At the return of a call: an earlier call has returned, and no counter has
\* changed since that earlier call started (the counters only grow).
NoCompletionSince == stats.calls >= 1 /\ counters = stats.before

\* The fields of a snapshot that come from the counters and the pool's size.
CounterFields(snap) ==
    <<snap.TotalProcessed, snap.SuccessCount, snap.ErrorCount,
      snap.AverageProcessTime, snap.ActiveWorkers>>

\* Pool.Stats can always take its next step, and its steps leave the
\* counters, both queues and every worker as they were.
StatsReadsOnly ==
    /\ (stats.pc # "idle" \/ stats.calls < MaxStatsCalls) => ENABLED Stats
    /\ StatsStep => UNCHANGED <<poolVars, workerVars, closePc, received,
                                readerDone, faults>>

\* C18 as stated: Stats is a pure read that never blocks, and a call that
\* returns with no task completed since the call before it started returns
\* the very snapshot that call returned.
C18_StatsIdempotent ==
    [][/\ StatsReadsOnly
       /\ (StatsReturns /\ NoCompletionSince) => stats'.snap = stats.snap]_vars

\* C18, amended: Stats is a pure read that never blocks, and a call that
\* returns with no counter changed since the call before it started returns
\* the same total, success and error counts, average and worker count as
\* that call; the queue length and the uptime are read afresh.
C18_StatsPureRead ==
    [][/\ StatsReadsOnly
       /\ (StatsReturns /\ NoCompletionSince) =>
              CounterFields(stats'.snap) = CounterFields(stats.snap)]_vars

\* A second call has returned after a completed order, no counter having
\* changed since the first call started.
C18_Witness ==
    /\ stats.pc = "idle"
    /\ stats.calls = 2
    /\ counters = stats.before
    /\ Processed = 1
    /\ stats.snap.TotalProcessed = 1
    /\ stats.snap.AverageProcessTime = <<TotalTime, 1>>

\* The pre-admission rules on an order, the identifier rule apart and with it.
OrderRules(o) ==
    /\ o.Customer # ""
    /\ o.Status \in {"pending", "paid", "shipped", "delivered", "cancelled"}
    /\ o.Address # ""
    /\ o.Amount > 0
    /\ o.NItems > 0
    /\ o.Priority \in {1, 2, 3}

RulesMet(o) == o.ID # 0 /\ OrderRules(o)

\* An order with an unset priority read as 2; with an unset status read as
\* "pending" as well.
PriorityDefaulted(o) == [o EXCEPT !.Priority = IF @ = 0 THEN 2 ELSE @]
AllDefaulted(o) ==
    [PriorityDefaulted(o) EXCEPT !.Status = IF @ = "" THEN "pending" ELSE @]

\* The handler has answered the run's request, a POST whose body decoded.
OrderAnswered ==
    outcome # "none" /\ request.Method = "POST" /\ request.Decodes

\* The request was answered with an error and nothing was enqueued.
Refused == resp.status >= 400 /\ admitted = {} /\ Orders = <<>>

\* C19 as stated: every order on the input queue meets all the rules, and a
\* request whose order, its unset priority read as 2 and its identifier
\* generated if missing, fails any rule is answered with an error and
\* nothing is enqueued.
C19_RulesAsSent ==
    /\ \A i \in 1 .. Len(Orders) : RulesMet(Orders[i])
    /\ (OrderAnswered /\ ~OrderRules(PriorityDefaulted(request.Order))) => Refused

\* C19, amended: every order on the input queue meets all the rules; the
\* handler reads an unset priority as 2 and also an unset status as
\* "pending", and generates a missing identifier; a request whose order
\* then fails any rule is answered with an error and nothing is enqueued.
C19_RulesAfterDefaults ==
    /\ \A i \in 1 .. Len(Orders) : RulesMet(Orders[i])
    /\ (OrderAnswered /\ ~OrderRules(AllDefaulted(request.Order))) => Refused

\* A request without identifier, status and priority has been enqueued with
\* all three filled in.
C19_Witness ==
    /\ outcome = "queued"
    /\ request.Order.ID = 0
    /\ request.Order.Status = ""
    /\ request.Order.Priority = 0
    /\ Len(Orders) = 1
    /\ RulesMet(Orders[1])
    /\ Orders[1].Status = "pending"
    /\ Orders[1].Priority = 2

\* The workers that have not returned.
Running == {w \in WorkerIDs : wpc[w] # "stopped"}

\* C20: the ActiveWorkers of every snapshot is the number of workers running
\* when Stats builds it: Workers before cancellation, 0 once Close has
\* returned.
C20_ActiveWorkers ==
    [][StatsReturns =>
         /\ stats'.snap.ActiveWorkers = Cardinality(Running)
         /\ ~cancelled => stats'.snap.ActiveWorkers = Workers
         /\ closePc = "done" => stats'.snap.ActiveWorkers = 0]_vars

\* The results worker w has sent on Results, as a set of ids.
PushedBy(w, q) == {q[i].Order.ID : i \in {j \in 1 .. Len(q) : q[j].WorkerID = w}}

\* C21: no order is fatal to a worker.  A worker stops only on a step taken
\* with the context cancelled or the input queue closed and drained; a worker
\* that has finished counting a failed order is back at its outer select;
\* and a stopped worker stays stopped, dequeues nothing and pushes nothing,
\* and no counter moves once all workers have stopped.
C21_OnlyCancelStops ==
    [][\A w \in WorkerIDs :
         /\ (wpc[w] # "stopped" /\ wpc'[w] = "stopped")
               => (cancelled \/ (ordersClosed /\ Orders = <<>>))
         /\ (wpc[w] = "count3" /\ ~processedOrder[w].Success /\ wpc'[w] # "count3")
               => wpc'[w] = "select"
         /\ wpc[w] = "stopped" =>
               /\ wpc'[w] = "stopped"
               /\ {p \in dequeuedBy' : p[2] = w} = {p \in dequeuedBy : p[2] = w}
               /\ PushedBy(w, pushed') = PushedBy(w, pushed)
         /\ AllStopped => UNCHANGED <<counters, pushed, dequeuedBy>>]_vars

\* A worker has pushed and counted a failed order and then dequeued the next.
C21_Witness ==
    \E w \in WorkerIDs :
        /\ Len(pushed) >= 1
        /\ ~pushed[1].Success
        /\ pushed[1].WorkerID = w
        /\ ErrorCount = 1
        /\ <<pushed[1].Order.ID + 1, w>> \in dequeuedBy
        /\ wpc[w] = "process"

\* C22: once the context is cancelled no worker receives from the input
\* queue.
C22_NoDequeueAfterCancel ==
    [][cancelled => dequeuedBy' = dequeuedBy]_vars

\* C23: once the context is cancelled no worker sends a result on the output
\* queue: a result not yet pushed is dropped.
C23_NoPushAfterCancel ==
    [][cancelled => pushed' = pushed]_vars

\* No worker is between its send on Results and its last counter update.
AllCounted == \A w \in WorkerIDs : wpc[w] \notin {"count1", "count2", "count3"}

\* C24: in every state SuccessCount + ErrorCount <= Processed <=
\* SuccessCount + ErrorCount + Workers and no counter is negative; no step
\* lowers a counter; and whenever no worker is between its push and its last
\* update, Processed = SuccessCount + ErrorCount = number of results pushed.
C24_LiveCounters ==
    /\ [](/\ SuccessCount + ErrorCount <= Processed
          /\ Processed <= SuccessCount + ErrorCount + Workers
          /\ Processed >= 0 /\ SuccessCount >= 0
          /\ ErrorCount >= 0 /\ TotalTime >= 0
          /\ AllCounted => /\ Processed = SuccessCount + ErrorCount
                           /\ Processed = Len(pushed))
    /\ [][/\ Processed' >= Processed
          /\ SuccessCount' >= SuccessCount
          /\ ErrorCount' >= ErrorCount
          /\ TotalTime' >= TotalTime]_vars

\* Every worker has counted its order in Processed and not yet in
\* SuccessCount or ErrorCount: the upper bound is met.
C24_Witness ==
    /\ \A w \in WorkerIDs : wpc[w] = "count2"
    /\ Processed = SuccessCount + ErrorCount + Workers

\* C25: the one result of a single-request run, once pushed, is accounted
\* exactly once: nothing is counted before the push or beyond the one
\* result, and the push leads to Processed 1, to 1 in SuccessCount or in
\* ErrorCount according to the result's Success, and to TotalTime being the
\* result's ProcessingTime, cancelled or not.
C25_PushedIsCounted ==
    /\ [](/\ Len(pushed) <= 1
          /\ Processed <= Len(pushed)
          /\ SuccessCount + ErrorCount <= Processed
          /\ Len(pushed) = 0 => TotalTime = 0
          /\ Len(pushed) = 1 =>
                /\ TotalTime \in {0, pushed[1].ProcessingTime}
                /\ SuccessCount <= (IF pushed[1].Success THEN 1 ELSE 0)
                /\ ErrorCount <= (IF pushed[1].Success THEN 0 ELSE 1))
    /\ (Len(pushed) = 1) ~>
          (/\ Processed = 1
           /\ SuccessCount = (IF pushed[1].Success THEN 1 ELSE 0)
           /\ ErrorCount = (IF pushed[1].Success THEN 0 ELSE 1)
           /\ TotalTime = pushed[1].ProcessingTime)

\* A failed result was pushed, the context is cancelled, and the worker that
\* pushed it has made all three updates and stopped.
C25_Witness ==
    /\ cancelled
    /\ Len(pushed) = 1
    /\ ~pushed[1].Success
    /\ wpc[pushed[1].WorkerID] = "stopped"
    /\ Processed = 1
    /\ ErrorCount = 1
    /\ SuccessCount = 0
    /\ TotalTime = pushed[1].ProcessingTime

\* C26: in every snapshot Stats returns, SuccessCount + ErrorCount is at
\* most TotalProcessed, whatever the workers do during the call.
C26_SnapshotConsistent ==
    stats.snap.SuccessCount + stats.snap.ErrorCount <= stats.snap.TotalProcessed

\* C27: the average of a snapshot is 0 when the Processed value loaded is 0,
\* and otherwise the fraction, with a non-zero denominator, that equals the
\* TotalTime value loaded over the Processed value loaded.
C27_Average ==
    [][StatsReturns =>
         LET avg == stats'.snap.AverageProcessTime
         IN  /\ avg[2] # 0
             /\ stats.processed = 0 => avg[1] = 0
             /\ stats.processed # 0 =>
                   avg[1] * stats.processed = stats.totalTime * avg[2]]_vars

\* A snapshot of one counted order with its time, and nothing else, shows
\* that time as the average.
C27_Witness ==
    /\ stats.pc = "idle"
    /\ stats.calls >= 1
    /\ stats.snap.TotalProcessed = 1
    /\ stats.snap.AverageProcessTime = <<2 * SleepUnit, 1>>

\* C28: the output queue never holds more than Buf results, and a worker
\* holding a result while the output queue is full and the context is not
\* cancelled keeps holding it: the step neither drops the result nor lets
\* that worker dequeue another order.
C28_OutputBounded ==
    /\ [](Len(Results) <= Buf)
    /\ [][\A w \in WorkerIDs :
            (wpc[w] = "send" /\ Len(Results) = Buf /\ ~cancelled) =>
                /\ wpc'[w] = "send"
                /\ processedOrder'[w] = processedOrder[w]
                /\ dropped' = dropped
                /\ {p \in dequeuedBy' : p[2] = w} = {p \in dequeuedBy : p[2] = w}]_vars

\* A worker waits with its result at a full output queue, not cancelled.
C28_Witness ==
    \E w \in WorkerIDs :
        /\ wpc[w] = "send"
        /\ Len(Results) = Buf
        /\ ~cancelled
        /\ processedOrder[w].Order.ID \notin SeqIds(pushed)

\* C29: a worker handles one order at a time, in the order it dequeued them.
\* When a worker dequeues, the result of every order it dequeued before has
\* been pushed (a worker that dropped one has stopped); and of two results
\* of one worker the one pushed first is of the order dequeued first, which,
\* the queue being FIFO and ids rising with admission, is the lower id.
C29_OneAtATime ==
    /\ [][\A p \in dequeuedBy' \ dequeuedBy :
            \A q \in dequeuedBy :
                q[2] = p[2] => (q[1] < p[1] /\ q[1] \in SeqIds(pushed))]_vars
    /\ [](\A i, j \in 1 .. Len(pushed) :
            (i < j /\ pushed[i].WorkerID = pushed[j].WorkerID)
                => pushed[i].Order.ID < pushed[j].Order.ID)

\* One worker has dequeued two orders while the other took the one between
\* them, and has pushed the results of both.
C29_Witness ==
    \E w \in WorkerIDs :
        /\ {p[1] : p \in {q \in dequeuedBy : q[2] = w}} = {1, 3}
        /\ Len(pushed) >= 2
        /\ \E i, j \in 1 .. Len(pushed) :
              /\ i < j
              /\ pushed[i].WorkerID = w /\ pushed[i].Order.ID = 1
              /\ pushed[j].WorkerID = w /\ pushed[j].Order.ID = 3

\* C30: results can enter the output queue against the admission order, and
\* when two do, different workers pushed them: no order holds across workers.
C30_ReorderAcrossWorkers ==
    \A i, j \in 1 .. Len(pushed) :
        (i < j /\ pushed[i].Order.ID > pushed[j].Order.ID)
            => pushed[i].WorkerID # pushed[j].WorkerID

\* A of priority 3 was admitted before B of priority 1, different workers
\* dequeued them, and the result of B was pushed before the result of A.
C30_Witness ==
    /\ admitted = {1, 2}
    /\ Len(pushed) = 2
    /\ pushed[1].Order.ID = 2 /\ pushed[1].Order.Priority = 1
    /\ pushed[2].Order.ID = 1 /\ pushed[2].Order.Priority = 3
    /\ pushed[1].WorkerID # pushed[2].WorkerID
    /\ dequeuedBy = {<<1, pushed[2].WorkerID>>, <<2, pushed[1].WorkerID>>}
    /\ pushed[1].ProcessingTime < pushed[2].ProcessingTime

\* The order as CreateOrderHandler enqueued it, its identifier apart.
Unidentified(o) == [o EXCEPT !.ID = 0]

\* C31: the result of an order of amount over 10000 or of more than 50 items
\* carries the order with every field, its status included, as it was
\* admitted, Success false and the message "Order processing failed": the
\* business rules did not run on it.
C31_FailedKeepsOrder ==
    \A c \in created :
        (c.Order.Amount > 10000 \/ c.Order.NItems > 50) =>
            /\ Unidentified(c.Order) = Unidentified(AllDefaulted(request.Order))
            /\ c.Order.ID \in admitted
            /\ c.Order.Status = AllDefaulted(request.Order).Status
            /\ ~c.Success
            /\ c.Result = "Order processing failed"

\* An order over the amount limit, admitted as "paid", came out as "paid".
C31_Witness ==
    \E c \in created :
        /\ c.Order.Amount = 10001
        /\ c.Order.Status = "paid"
        /\ request.Order.Status = "paid"
        /\ c.Result = "Order processing failed"

\* C32: at-most-once processing. A worker that dequeues takes an admitted
\* order that no worker has dequeued before; the results pushed onto the
\* output queue are of distinct dequeued orders; the processed counter grows
\* by one at a time, by the worker that pushed a result and once for that
\* result, so it never exceeds the number of pushed results.
C32_AtMostOnce ==
    /\ [](/\ \A i, j \in 1 .. Len(pushed) :
               pushed[i].Order.ID = pushed[j].Order.ID => i = j
          /\ \A i \in 1 .. Len(pushed) : pushed[i].Order.ID \in DequeuedIds
          /\ Processed <= Len(pushed)
          /\ Len(pushed) <= Cardinality(DequeuedIds)
          /\ Cardinality(DequeuedIds) <= Cardinality(admitted))
    /\ [][/\ \A w \in WorkerIDs :
               (wpc[w] = "select" /\ wpc'[w] = "process") =>
                   /\ order'[w].ID \in admitted
                   /\ order'[w].ID \notin DequeuedIds
          /\ Processed' # Processed =>
               /\ Processed' = Processed + 1
               /\ \E w \in WorkerIDs :
                    /\ wpc[w] = "count1"
                    /\ wpc'[w] = "count2"
                    /\ \E i \in 1 .. Len(pushed) : pushed[i] = processedOrder[w]]_vars

\* Two workers have each dequeued, pushed and counted orders of their own.
C32_Witness ==
    /\ Cardinality(admitted) >= 2
    /\ Cardinality(DequeuedIds) = Cardinality(admitted)
    /\ Len(pushed) = Cardinality(admitted)
    /\ Processed = Len(pushed)
    /\ \E p, q \in dequeuedBy : p[2] # q[2]

\* Close is never called, and the reader of Results keeps reading.
NoShutdown == [](closePc = "idle") /\ WF_vars(Reader)

\* C33: if Close is never called and the reader keeps draining Results, then
\* under fair scheduling of the workers every admitted order is eventually
\* dequeued and its result received by the reader, the processed counter
\* eventually reaches the number of admitted orders, and the input queue,
\* whenever it holds an order, is eventually empty again.
C33_Progress ==
    NoShutdown =>
        /\ \A id \in 1 .. MaxOrders :
             (id \in admitted) ~>
                 (id \in DequeuedIds /\ id \in SeqIds(received))
        /\ \A n \in 1 .. MaxOrders :
             (Cardinality(admitted) >= n) ~> (Processed >= n)
        /\ (Orders # <<>>) ~> (Orders = <<>>)

\* Without shutdown, several orders were admitted, every one was received by
\* the reader and counted.
C33_Witness ==
    /\ closePc = "idle"
    /\ Cardinality(admitted) >= Buf
    /\ SeqIds(received) = admitted
    /\ DequeuedIds = admitted
    /\ Processed = Cardinality(admitted)

\* C34: no admission attempt sends on a closed input queue: an attempt made
\* once Close has cancelled is refused without a fault, and the fault of a
\* send on the closed pool.Orders is never recorded.
C34_NoSendOnClosed ==
    /\ []("send on closed Orders" \notin faults)
    /\ [][(OfferStep /\ ordersClosed) =>
             /\ outcome' = "queue_full"
             /\ faults' = faults]_vars

\* C35: an admission attempt succeeds only on a healthy pool: in the state in
\* which the order is enqueued IsHealthy holds, and so no order is accepted
\* once cancellation has fired.
C35_AdmitOnlyHealthy ==
    [][(OfferStep /\ outcome' = "queued") =>
          /\ IsHealthy
          /\ ~cancelled
          /\ ~cancelled']_vars

\* GET /health has been answered.
HealthAnswered == health.pc = "idle" /\ health.calls > 0

\* C36: the answer of the health endpoint is consistent with itself: status
\* "unhealthy" and HTTP 503 exactly when its pool.healthy field is false, and
\* pool.healthy false only if cancellation has fired or the queue_length it
\* reports equals the capacity of the input queue.
C36_HealthConsistent ==
    HealthAnswered =>
        /\ (health.body.status = "unhealthy") <=> ~health.body.healthy
        /\ (health.resp.status = StatusServiceUnavailable)
               <=> ~health.body.healthy
        /\ ~health.body.healthy =>
               (cancelled \/ health.body.queue_length = Buf)

\* C37: when ListenAndServe has returned and the process has exited, the
\* deferred Close(pool) has run: cancellation has fired, every worker has
\* stopped and both queues are closed.
C37_CloseOnExit ==
    mainPc = "exited" =>
        /\ closePc = "done"
        /\ cancelled
        /\ AllStopped
        /\ ordersClosed
        /\ resultsClosed

\* C38: the results the reader has received followed by those still buffered
\* are, at every moment, the results pushed, in push order; closing the
\* output queue leaves its buffer as it is; the reader's loop ends only on a
\* closed and drained queue, with every pushed result received; and once
\* Close has returned a reader that keeps reading receives all of them and
\* then ends its loop.
C38_StreamCompletion ==
    /\ [](/\ received \o Results = pushed
          /\ readerDone => (resultsClosed /\ received = pushed))
    /\ [][resultsClosed' # resultsClosed =>
             /\ Results' = Results
             /\ received' = received]_vars
    /\ WF_vars(Reader) =>
          ((closePc = "done") ~> (readerDone /\ received = pushed))

\* Close returned and the reader's loop has ended with a full buffer's worth
\* of results received, all that were pushed.
C38_Witness ==
    /\ closePc = "done"
    /\ readerDone
    /\ Len(received) >= Buf
    /\ received = pushed

====
